---- MODULE Spec2Model ----
(***************************************************************************)
(* Model of the BoTTube client-side RustChain wallet helper                *)
(* (bottube_static/rustchain_wallet.js).                                   *)
(*                                                                         *)
(* JavaScript strings are sequences of one-character strings, byte arrays  *)
(* (Uint8Array) are sequences of 0..255.  A thrown Error is represented by *)
(* its message.                                                            *)
(***************************************************************************)
EXTENDS Integers, Sequences, FiniteSets, TLC

--------------------------------------------------------------------------
(* Characters and strings                                                  *)

\* the characters the model's inputs are written in, with their UTF-8 codes
Alphabet ==
  << <<" ", 32>>, <<"\"", 34>>, <<"+", 43>>, <<",", 44>>, <<"-", 45>>,
     <<".", 46>>, <<"0", 48>>, <<"1", 49>>, <<"2", 50>>, <<"3", 51>>,
     <<"4", 52>>, <<"5", 53>>, <<"6", 54>>, <<"7", 55>>, <<"8", 56>>,
     <<"9", 57>>, <<":", 58>>, <<"A", 65>>, <<"B", 66>>, <<"C", 67>>,
     <<"D", 68>>, <<"E", 69>>, <<"F", 70>>, <<"G", 71>>, <<"I", 73>>,
     <<"N", 78>>, <<"R", 82>>,
     <<"T", 84>>, <<"X", 88>>, <<"\\", 92>>, <<"a", 97>>, <<"b", 98>>,
     <<"c", 99>>, <<"d", 100>>, <<"e", 101>>, <<"f", 102>>, <<"g", 103>>,
     <<"h", 104>>, <<"i", 105>>, <<"m", 109>>, <<"n", 110>>, <<"o", 111>>,
     <<"r", 114>>, <<"t", 116>>, <<"u", 117>>, <<"x", 120>>, <<"y", 121>>, <<"{", 123>>,
     <<"}", 125>>, <<"\n", 10>> >>

CharCodeOf ==
  [c \in {Alphabet[j][1] : j \in 1..Len(Alphabet)} |->
     Alphabet[CHOOSE j \in 1..Len(Alphabet) : Alphabet[j][1] = c][2]]

CharCode(c) == CharCodeOf[c]

HexDigits ==
  <<"0","1","2","3","4","5","6","7","8","9","a","b","c","d","e","f">>

HexDigitSet == {HexDigits[i] : i \in 1..16}

HexValOf == [c \in HexDigitSet |-> (CHOOSE i \in 1..16 : HexDigits[i] = c) - 1]

IsHexDigit(c) == c \in HexDigitSet

HexVal(c) == HexValOf[c]

DecDigits == <<"0","1","2","3","4","5","6","7","8","9">>

DecDigitSet == {DecDigits[i] : i \in 1..10}

IsDecDigit(c) == c \in DecDigitSet

DecVal(c) == HexValOf[c]

\* StrWhiteSpaceChar, as far as the alphabet goes
IsSpace(c) == c \in {" ", "\n"}

\* the sequence f[1], ..., f[n], evaluated once
AsSeq(f, n) == SubSeq(f, 1, n)

Rep(s, n) == IF n <= 0 THEN <<>> ELSE
  LET m == Len(s) IN  AsSeq([i \in 1..(m * n) |-> s[((i - 1) % m) + 1]], m * n)

\* String.prototype.slice(from) and slice(from, to), 0-based, end exclusive
Slice(s, from, to) ==
  LET t == IF to > Len(s) THEN Len(s) ELSE to
  IN  IF from >= t THEN <<>> ELSE SubSeq(s, from + 1, t)

StartsWith(s, p) == Len(s) >= Len(p) /\ SubSeq(s, 1, Len(p)) = p

\* String.prototype.trim
\* the least and the greatest element of a non-empty set of integers
Min(S) == CHOOSE i \in S : \A j \in S : i <= j

Max(S) == CHOOSE i \in S : \A j \in S : i >= j

\* the positions of s that hold no white space
NonSpace(s) == {i \in 1..Len(s) : ~IsSpace(s[i])}

TrimTo(s, keep) == IF keep = {} THEN <<>> ELSE SubSeq(s, Min(keep), Max(keep))

Trim(s) == TrimTo(s, NonSpace(s))

LowerChar(c) ==
  CASE c = "A" -> "a" [] c = "B" -> "b" [] c = "C" -> "c" [] c = "D" -> "d"
    [] c = "E" -> "e" [] c = "F" -> "f" [] c = "G" -> "g" [] c = "R" -> "r"
    [] c = "T" -> "t" [] c = "X" -> "x" [] OTHER -> c

\* String.prototype.toLowerCase
ToLowerCase(s) == AsSeq([i \in 1..Len(s) |-> LowerChar(s[i])], Len(s))

\* Number.prototype.toString(10) of a non-negative integer
RECURSIVE NatToStr(_)
NatToStr(n) ==
  IF n < 10 THEN <<DecDigits[n + 1]>>
  ELSE NatToStr(n \div 10) \o <<DecDigits[(n % 10) + 1]>>

\* String(i) of an integer-valued Number
IntToStr(i) == IF i < 0 THEN <<"-">> \o NatToStr(0 - i) ELSE NatToStr(i)

--------------------------------------------------------------------------
(* parseInt                                                                *)

\* a Number that parseInt returns: NaN, or an integer value
NaN == [nan |-> TRUE, val |-> 0]

Num(i) == [nan |-> FALSE, val |-> i]

\* value of a string of digits in the given radix, most significant first
RECURSIVE DigitsVal(_, _)
DigitsVal(s, radix) ==
  IF s = <<>> THEN 0
  ELSE DigitsVal(SubSeq(s, 1, Len(s) - 1), radix) * radix
       + (IF radix = 16 THEN HexVal(s[Len(s)]) ELSE DecVal(s[Len(s)]))

\* the longest prefix of s made of digits of the radix
IsDigitOf(c, radix) == IF radix = 16 THEN IsHexDigit(c) ELSE IsDecDigit(c)

PrefixBefore(s, bad) == SubSeq(s, 1, IF bad = {} THEN Len(s) ELSE Min(bad) - 1)

DigitPrefix(s, radix) ==
  PrefixBefore(s, {i \in 1..Len(s) : ~IsDigitOf(s[i], radix)})

\* parseInt(s, radix) of ECMAScript: leading white space is skipped, a sign
\* is read, for radix 16 a 0x prefix is skipped, then the longest prefix of
\* digits is the value; no digit at all gives NaN.  -0 is reported as 0.
SkipSpace(s, keep) == IF keep = {} THEN <<>> ELSE SubSeq(s, Min(keep), Len(s))

ParseDigits(neg, d, radix) ==
  IF d = <<>> THEN NaN
  ELSE Num((IF neg THEN 0 - 1 ELSE 1) * DigitsVal(d, radix))

ParseUnsigned(neg, u, radix) ==
  ParseDigits(neg,
              DigitPrefix(IF radix = 16 /\ StartsWith(u, <<"0", "x">>)
                            THEN Slice(u, 2, Len(u)) ELSE u,
                          radix),
              radix)

ParseSigned(t, radix) ==
  ParseUnsigned(t # <<>> /\ t[1] = "-",
                IF t # <<>> /\ t[1] \in {"+", "-"} THEN Tail(t) ELSE t,
                radix)

ParseInt(s, radix) == ParseSigned(ToLowerCase(SkipSpace(s, NonSpace(s))), radix)

--------------------------------------------------------------------------
(* Hex codec                                                               *)

NoBytes == <<>>

\* the parseInt(h.slice(i * 2, i * 2 + 2), 16) of the loop of _hexToBytes
HexPairs(h) ==
  AsSeq([i \in 1..(Len(h) \div 2) |->
           ParseInt(Slice(h, (i - 1) * 2, (i - 1) * 2 + 2), 16)],
        Len(h) \div 2)

\* the Uint8Array the loop fills, or its throw
HexCollect(b) ==
  IF \E i \in 1..Len(b) : b[i].nan
    THEN [err |-> "invalid hex", bytes |-> NoBytes]
  ELSE [err |-> "", bytes |-> AsSeq([i \in 1..Len(b) |-> b[i].val % 256], Len(b))]

HexDecode(h) ==
  IF Len(h) % 2 # 0 THEN [err |-> "hex length must be even", bytes |-> NoBytes]
  ELSE HexCollect(HexPairs(h))

\* (mutant) a 0x prefix left in place
Strip0x_Never(h) == h

Strip0x(h) == IF StartsWith(h, <<"0", "x">>) THEN Slice(h, 2, Len(h)) ELSE h

\* _hexToBytes: [err, bytes]; err = "" when the function returns
_hexToBytes(hex) == HexDecode(Strip0x(ToLowerCase(Trim(hex))))

\* _bytesToHex
_bytesToHex(bytes) ==
  AsSeq([i \in 1..(2 * Len(bytes)) |->
           IF i % 2 = 1 THEN HexDigits[(bytes[(i + 1) \div 2] \div 16) + 1]
           ELSE HexDigits[(bytes[i \div 2] % 16) + 1]],
        2 * Len(bytes))

--------------------------------------------------------------------------
(* Numbers and their rendering                                             *)

\* A JavaScript Number as Number::toString sees it: NaN, an infinity, or the
\* finite value (-1)^neg * 0.d1d2...dk * 10^n, where d1..dk are the digits
\* of the shortest decimal that round-trips (no leading or trailing zero;
\* no digit at all for zero).
Fin(neg, digits, n) == [kind |-> "fin", neg |-> neg, digits |-> digits, n |-> n]

NotANumber == [kind |-> "nan", neg |-> FALSE, digits |-> <<>>, n |-> 0]

Infinity(neg) == [kind |-> "inf", neg |-> neg, digits |-> <<>>, n |-> 0]

\* Number.isFinite
IsFinite(x) == x.kind = "fin"

\* the largest n for which Number::toString writes an integer in full
MaxPlainDigits == 21

\* the smallest n (exclusive) for which a fraction is written without exponent
MinPlainExp == -6

\* Number::toString(x), radix 10, of a finite x # 0 with digits d (k of
\* them) and exponent n
Exponent(e) ==
  <<"e">> \o (IF e < 0 THEN <<"-">> ELSE <<"+">>) \o NatToStr(IF e < 0 THEN 0 - e ELSE e)

FiniteToString(d, k, n) ==
  IF k <= n /\ n <= MaxPlainDigits THEN d \o Rep(<<"0">>, n - k)
  ELSE IF 0 < n /\ n <= MaxPlainDigits
    THEN SubSeq(d, 1, n) \o <<".">> \o SubSeq(d, n + 1, k)
  ELSE IF MinPlainExp < n /\ n <= 0
    THEN <<"0", ".">> \o Rep(<<"0">>, 0 - n) \o d
  ELSE IF k = 1 THEN d \o Exponent(n - 1)
  ELSE <<d[1], ".">> \o SubSeq(d, 2, k) \o Exponent(n - 1)

NumberToString(x) ==
  CASE x.kind = "nan" -> <<"N", "a", "N">>
    [] x.kind = "inf" ->
         (IF x.neg THEN <<"-">> ELSE <<>>)
           \o <<"I", "n", "f", "i", "n", "i", "t", "y">>
    [] x.digits = <<>> -> <<"0">>
    [] OTHER -> (IF x.neg THEN <<"-">> ELSE <<>>)
                  \o FiniteToString(x.digits, Len(x.digits), x.n)

\* String.prototype.indexOf(c) === -1
HasNo(s, c) == \A i \in 1..Len(s) : s[i] # c

\* (mutant) the rendering of toString left as it is
WithPointZero_Never(s) == s

\* the ".0" that _pyFloatRepr appends to s = x.toString()
WithPointZero(s) ==
  IF HasNo(s, ".") /\ HasNo(s, "e") /\ HasNo(s, "E") THEN s \o <<".", "0">> ELSE s

\* (mutant) no check that the amount is finite
_pyFloatRepr_NoFiniteCheck(n) ==
  [err |-> "", str |-> WithPointZero(NumberToString(n))]

\* _pyFloatRepr: [err, str]
_pyFloatRepr(n) ==
  IF ~IsFinite(n) THEN [err |-> "amount not finite", str |-> <<>>]
  ELSE [err |-> "", str |-> WithPointZero(NumberToString(n))]

--------------------------------------------------------------------------
(* Canonical message                                                       *)

\* QuoteJSONString of one character
JsonEscape(c) ==
  CASE c = "\"" -> <<"\\", "\"">>
    [] c = "\\" -> <<"\\", "\\">>
    [] c = "\n" -> <<"\\", "n">>
    [] OTHER -> <<c>>

RECURSIVE JsonEscapeAll(_)
JsonEscapeAll(s) ==
  IF s = <<>> THEN <<>>
  ELSE IF Len(s) = 1 THEN JsonEscape(s[1])
  ELSE JsonEscapeAll(SubSeq(s, 1, Len(s) \div 2))
         \o JsonEscapeAll(SubSeq(s, Len(s) \div 2 + 1, Len(s)))

\* (mutant) quotes put around the raw text
JsonStringify_NoEscape(s) == <<"\"">> \o s \o <<"\"">>

\* JSON.stringify(String(s || "")) of a string s
JsonStringify(s) == <<"\"">> \o JsonEscapeAll(s) \o <<"\"">>

KeyAmount == <<"\"", "a", "m", "o", "u", "n", "t", "\"", ":">>
KeyFrom == <<"\"", "f", "r", "o", "m", "\"", ":">>
KeyMemo == <<"\"", "m", "e", "m", "o", "\"", ":">>
KeyNonce == <<"\"", "n", "o", "n", "c", "e", "\"", ":">>
KeyTo == <<"\"", "t", "o", "\"", ":">>

\* parts.join("") for the rendered amount a
JoinParts(a, fromAddr, toAddr, memo, nonceStr) ==
  <<"{">>
    \o KeyAmount \o a \o <<",">>
    \o KeyFrom \o JsonStringify(fromAddr) \o <<",">>
    \o KeyMemo \o JsonStringify(memo) \o <<",">>
    \o KeyNonce \o JsonStringify(nonceStr) \o <<",">>
    \o KeyTo \o JsonStringify(toAddr)
    \o <<"}">>

\* _canonicalTxJson for a = _pyFloatRepr(amountRtc), whose throw it passes on
CanonicalWith(a, fromAddr, toAddr, memo, nonceStr) ==
  IF a.err # "" THEN [err |-> a.err, msg |-> <<>>]
  ELSE [err |-> "", msg |-> JoinParts(a.str, fromAddr, toAddr, memo, nonceStr)]

\* _canonicalTxJson: [err, msg]
_canonicalTxJson(fromAddr, toAddr, amountRtc, memo, nonceStr) ==
  CanonicalWith(_pyFloatRepr(amountRtc), fromAddr, toAddr, memo, nonceStr)

--------------------------------------------------------------------------
(* Platform primitives                                                     *)
(* tweetnacl and SubtleCrypto are outside the repository.  They are stood  *)
(* in for by deterministic functions of the right shapes: a 32-byte public *)
(* key that determines the seed, a 64-byte secret key (seed then public    *)
(* key, as tweetnacl lays it out), a 32-byte digest, a 64-byte signature   *)
(* every byte of which changes when one byte of the message changes.       *)

SeedLen == 32

DigestLen == 32

SignatureLen == 64

AddrHexLen == 40

\* b[lo] + ... + b[hi], summed by halves
RECURSIVE SumOver(_, _, _)
SumOver(b, lo, hi) ==
  IF lo > hi THEN 0
  ELSE IF lo = hi THEN b[lo]
  ELSE SumOver(b, lo, (lo + hi) \div 2) + SumOver(b, (lo + hi) \div 2 + 1, hi)

SumTo(b, n) == SumOver(b, 1, n)

SumSeq(b) == SumTo(b, Len(b))

\* lo * b[lo] + ... + hi * b[hi], summed by halves
RECURSIVE WeightedSumOver(_, _, _)
WeightedSumOver(b, lo, hi) ==
  IF lo > hi THEN 0
  ELSE IF lo = hi THEN lo * b[lo]
  ELSE WeightedSumOver(b, lo, (lo + hi) \div 2)
         + WeightedSumOver(b, (lo + hi) \div 2 + 1, hi)

WeightedSumTo(b, n) == WeightedSumOver(b, 1, n)

WeightedSum(b) == WeightedSumTo(b, Len(b))

\* nacl.sign.keyPair.fromSeed
nacl_sign_keyPair_fromSeed(seed) ==
  LET pk == AsSeq([i \in 1..Len(seed) |-> (seed[i] * 7 + 3 * i + 1) % 256], Len(seed))
  IN  [publicKey |-> pk, secretKey |-> seed \o pk]

\* crypto.subtle.digest("SHA-256", buf)
Mix(a, b, n) == AsSeq([i \in 1..n |-> (a * (2 * i + 1) + b + 31 * i) % 256], n)

crypto_subtle_digest(bytes) ==
  Mix(SumSeq(bytes), WeightedSum(bytes) + Len(bytes), DigestLen)

\* nacl.sign.detached(msgBytes, secretKey)
nacl_sign_detached(msgBytes, secretKey) ==
  Mix(SumSeq(msgBytes) + 3 * SumSeq(secretKey),
      2 * WeightedSum(msgBytes) + WeightedSum(secretKey) + Len(msgBytes),
      SignatureLen)

\* new TextEncoder().encode(msg)
TextEncode(msg) == AsSeq([i \in 1..Len(msg) |-> CharCode(msg[i])], Len(msg))

\* _sha256Hex
_sha256Hex(bytes) == _bytesToHex(crypto_subtle_digest(bytes))

--------------------------------------------------------------------------
(* Wallet derivation                                                       *)

NoWallet ==
  [seedHex |-> <<>>, publicKeyHex |-> <<>>, address |-> <<>>, secretKey |-> <<>>]

\* "RTC" + sha256(pubkey)[:40]
AddressOf(publicKey) ==
  <<"R", "T", "C">> \o Slice(_sha256Hex(publicKey), 0, AddrHexLen)

\* (mutant) the secret key handed out as the seed
WalletOfKeyPair_SecretAsSeed(seed, kp) ==
  [seedHex |-> _bytesToHex(kp.secretKey),
   publicKeyHex |-> _bytesToHex(kp.publicKey),
   address |-> AddressOf(kp.publicKey),
   secretKey |-> kp.secretKey]

\* the object _walletFromSeedHex returns for the seed and its key pair kp
WalletOfKeyPair(seed, kp) ==
  [seedHex |-> _bytesToHex(seed),
   publicKeyHex |-> _bytesToHex(kp.publicKey),
   address |-> AddressOf(kp.publicKey),
   secretKey |-> kp.secretKey]

WalletOfSeed(seed) == WalletOfKeyPair(seed, nacl_sign_keyPair_fromSeed(seed))

\* _walletFromSeedHex for d = _hexToBytes(seedHex): [err, wallet]
WalletOfDecoded(d, naclOk, subtleOk) ==
  IF ~naclOk THEN [err |-> "nacl not loaded", wallet |-> NoWallet]
  ELSE IF d.err # "" THEN [err |-> d.err, wallet |-> NoWallet]
  ELSE IF Len(d.bytes) # SeedLen
    THEN [err |-> "seed must be 32 bytes", wallet |-> NoWallet]
  ELSE IF ~subtleOk THEN [err |-> "TypeError", wallet |-> NoWallet]
  ELSE [err |-> "", wallet |-> WalletOfSeed(d.bytes)]

\* _walletFromSeedHex: [err, wallet].  naclOk: the nacl global is loaded
\* with sign.keyPair.fromSeed; subtleOk: crypto.subtle is there (a missing
\* crypto.subtle makes _sha256Hex throw a TypeError).
_walletFromSeedHex(seedHex, naclOk, subtleOk) ==
  WalletOfDecoded(_hexToBytes(seedHex), naclOk, subtleOk)

--------------------------------------------------------------------------
(* Transfer signing                                                        *)

NoPayload ==
  [from_address |-> <<>>, public_key |-> <<>>, signature |-> <<>>,
   nonce |-> 0, memo |-> <<>>, canonical_message |-> <<>>]

\* a throw of signTransfer: [err, payload, msg, sigBytes]
Thrown(e) == [err |-> e, payload |-> NoPayload, msg |-> <<>>, sigBytes |-> <<>>]

\* String(v) of v = parseInt(...)
NumToStr(v) == IF v.nan THEN <<"N", "a", "N">> ELSE IntToStr(v.val)

\* String(parseInt(String(nonceInt), 10))
NonceStr(nonceInt) == NumToStr(ParseInt(nonceInt, 10))

\* the object signTransfer returns
PayloadOf(w, memo, nonceStr, msg, sigBytes) ==
  [err |-> "",
   payload |-> [from_address |-> w.address,
                public_key |-> w.publicKeyHex,
                signature |-> _bytesToHex(sigBytes),
                nonce |-> ParseInt(nonceStr, 10).val,
                memo |-> memo,
                canonical_message |-> msg],
   msg |-> msg,
   sigBytes |-> sigBytes]

\* (mutant) the memo signed in place of the message
SignMessage_SignsMemo(w, memo, nonceStr, c) ==
  IF c.err # "" THEN Thrown(c.err)
  ELSE PayloadOf(w, memo, nonceStr, c.msg,
                 nacl_sign_detached(TextEncode(memo), w.secretKey))

\* signTransfer from the encoding of c = _canonicalTxJson(...) on
SignMessage(w, memo, nonceStr, c) ==
  IF c.err # "" THEN Thrown(c.err)
  ELSE PayloadOf(w, memo, nonceStr, c.msg,
                 nacl_sign_detached(TextEncode(c.msg), w.secretKey))

\* (mutant) the recipient written into the from field
SignWithNonce_FromCaller(w, toAddr, amountRtc, memo, nonceStr) ==
  IF nonceStr = <<>> \/ nonceStr = <<"N", "a", "N">> THEN Thrown("invalid nonce")
  ELSE SignMessage(w, memo, nonceStr,
                   _canonicalTxJson(toAddr, toAddr, amountRtc, memo, nonceStr))

\* signTransfer from the nonce check on
SignWithNonce(w, toAddr, amountRtc, memo, nonceStr) ==
  IF nonceStr = <<>> \/ nonceStr = <<"N", "a", "N">> THEN Thrown("invalid nonce")
  ELSE SignMessage(w, memo, nonceStr,
                   _canonicalTxJson(w.address, toAddr, amountRtc, memo, nonceStr))

\* signTransfer from the null check on, for the wallet w that getWallet gave
\* (hasWallet = FALSE: null): [err, payload, msg, sigBytes]; msg and
\* sigBytes are the locals, empty while unassigned
SignTransferBody(hasWallet, w, toAddr, amountRtc, memo, nonceInt) ==
  IF ~hasWallet THEN Thrown("no local wallet")
  ELSE SignWithNonce(w, toAddr, amountRtc, memo, NonceStr(nonceInt))

--------------------------------------------------------------------------
(* Inputs                                                                  *)

\* number of call slots (promises in flight or settled) of the interleaved
\* specification
MaxCalls == 2

\* number of distinct outcomes of crypto.getRandomValues
NumRandomSeeds == 2

Calls == 1..MaxCalls

RandomSeeds ==
  {AsSeq([i \in 1..SeedLen |-> (k * 37 + i * 11) % 256], SeedLen) : k \in 1..NumRandomSeeds}

HexA == Rep(<<"a", "b">>, SeedLen)

HexAUpper == Rep(<<"A", "B">>, SeedLen)

Zeros(n) == Rep(<<"0", "0">>, n)

\* seed texts handed to importSeed
ImportInputs ==
  { HexA,
    HexAUpper,
    <<"0", "x">> \o HexA,
    <<"0", "X">> \o HexAUpper,
    <<" ">> \o HexA \o <<"\n">>,
    Zeros(SeedLen),
    Zeros(SeedLen - 1),
    Zeros(SeedLen + 1),
    Tail(Zeros(SeedLen)),
    <<"1", "g">> \o Zeros(SeedLen - 1),
    <<"g", "1">> \o Zeros(SeedLen - 1),
    <<"-", "1">> \o Zeros(SeedLen - 1),
    Zeros(SeedLen - 2) \o <<" ", "1">> \o <<"0", "0">>,
    <<>> }

ImportInputsFew == {HexA, Zeros(SeedLen - 1)}

ToAddr == <<"R", "T", "C", "b", "0", "b">>

Amount2p5 == Fin(FALSE, <<"2", "5">>, 1)

\* nonce arguments, as String(nonceInt) reads them
Nonces ==
  { <<"1">>, <<"0">>, <<"4", "2">>, <<"a", "b", "c">>, <<"-", "5">>,
    <<"1", ".", "5">>, <<"1", "2", "a", "b", "c">>, <<>> }

Memos == { <<"h", "i">> }

NoArg ==
  [hex |-> <<>>, to |-> <<>>, amount |-> NotANumber, memo |-> <<>>, nonce |-> <<>>]

TransferArg(to, amount, memo, nonce) ==
  [hex |-> <<>>, to |-> to, amount |-> amount, memo |-> memo, nonce |-> nonce]

\* arguments handed to signTransfer
TransferArgs ==
  { TransferArg(ToAddr, a, m, n) :
      a \in {Amount2p5, NotANumber, Infinity(FALSE), Infinity(TRUE)},
      m \in Memos, n \in Nonces }

TransferArgsFew == {TransferArg(ToAddr, Amount2p5, <<"h", "i">>, <<"1">>)}

--------------------------------------------------------------------------
(* State                                                                   *)

VARIABLES
  storage,     \* localStorage item rc_wallet_seed_hex: [present, value]
  naclLoaded,  \* the nacl global is defined, with sign.keyPair.fromSeed
  subtleOk,    \* crypto.subtle is defined (secure context)
  calls,       \* the calls of the async functions, by slot
  hist,        \* "init", "cleared" (clearWallet was the last store event) or
               \* "unlocked" (a generate/import has returned since)
  lastGood,    \* seed hex written by the last generate/import that returned
  fin,         \* arguments of a direct call of canonicalTxJson / _pyFloatRepr
  fout,        \* what that call gave: [kind, err, str]
  footer       \* the footer counters script: its page, its _loaded flag, its
               \* observer, timer and request

vars == <<storage, naclLoaded, subtleOk, calls, hist, lastGood, fin, fout, footer>>

\* the variables of the direct calls of the pure functions and of the footer
\* script, which the wallet's calls leave alone
pure == <<fin, fout, footer>>

Absent == [present |-> FALSE, value |-> <<>>]

Stored(v) == [present |-> TRUE, value |-> v]

NoResult == [kind |-> "none", err |-> "", wallet |-> NoWallet, payload |-> NoPayload]

Rejected(e) == [kind |-> "error", err |-> e, wallet |-> NoWallet, payload |-> NoPayload]

ResolvedNull == [kind |-> "null", err |-> "", wallet |-> NoWallet, payload |-> NoPayload]

ResolvedWallet(w) == [kind |-> "wallet", err |-> "", wallet |-> w, payload |-> NoPayload]

ResolvedPayload(p) == [kind |-> "payload", err |-> "", wallet |-> NoWallet, payload |-> p]

\* a call: op, where it stands (pc), its argument, the locals seedHex (of
\* getWallet / generateWallet / importSeed), msg and sigBytes (of
\* signTransfer), and how its promise settled (res)
IdleCall ==
  [op |-> "idle", pc |-> "idle", arg |-> NoArg, seedHex |-> <<>>,
   msg |-> <<>>, sigBytes |-> <<>>, res |-> NoResult]

Free(c) == calls[c].pc # "await"

FmtArg(fromAddr, toAddr, amount, memo, nonceStr) ==
  [from |-> fromAddr, to |-> toAddr, amount |-> amount, memo |-> memo,
   nonce |-> nonceStr]

NoFmtArg == FmtArg(<<>>, <<>>, NotANumber, <<>>, <<>>)

NoFmtOut == [kind |-> "none", err |-> "", str |-> <<>>]

\* the page has loaded the script: nothing stored by it, no call made
WalletInit ==
  /\ storage = Absent
  /\ naclLoaded \in BOOLEAN
  /\ subtleOk \in BOOLEAN
  /\ calls = [c \in Calls |-> IdleCall]
  /\ hist = "init"
  /\ lastGood = <<>>

\* the footer script as it is loaded, on a page with (anchor) or without a
\* #bottube-counters or footer element, in a browser with (io) or without
\* IntersectionObserver: init has not run, _loaded is false, nothing requested
FooterBoot(anchor, io) ==
  [anchor |-> anchor, io |-> io, started |-> FALSE, startedAt |-> 0,
   observing |-> FALSE, entries |-> <<>>, timer |-> FALSE, now |-> 0,
   _loaded |-> FALSE, fetches |-> 0, fetch |-> "none"]

Init ==
  /\ WalletInit
  /\ fin = NoFmtArg
  /\ fout = NoFmtOut
  /\ footer = FooterBoot(FALSE, FALSE)

\* getSeedHex
getSeedHex == Trim(IF storage.present THEN storage.value ELSE <<>>)

\* a call of op with its argument and its seedHex
NewCall(op, arg, seedHex) ==
  [IdleCall EXCEPT !.op = op, !.arg = arg, !.seedHex = seedHex]

Settle(call, res) == [call EXCEPT !.pc = "done", !.res = res]

\* the call has entered _walletFromSeedHex, which threw e or (e = "") waits
\* for the digest
Entered(call, e) ==
  IF e # "" THEN Settle(call, Rejected(e)) ELSE [call EXCEPT !.pc = "await"]

\* the call enters _walletFromSeedHex(seedHex): it is rejected at once when
\* the synchronous part throws, and waits for the digest otherwise
EnterWallet(c, op, arg, seedHex) ==
  calls' = [calls EXCEPT ![c] =
              Entered(NewCall(op, arg, seedHex),
                      _walletFromSeedHex(seedHex, naclLoaded, subtleOk).err)]

\* generateWallet with the random seed, up to its await
GenerateWith(c, seedHex) ==
  /\ storage' = Stored(seedHex)
  /\ EnterWallet(c, "generate", NoArg, seedHex)

GenerateWalletCall(c) ==
  /\ Free(c)
  /\ \E seed \in RandomSeeds : GenerateWith(c, _bytesToHex(seed))
  /\ UNCHANGED <<naclLoaded, subtleOk, hist, lastGood, pure>>

\* importSeed for d = _hexToBytes(seedHex), up to its await
ImportThrows(c, arg, e) ==
  /\ calls' = [calls EXCEPT ![c] = Settle(NewCall("import", arg, <<>>), Rejected(e))]
  /\ UNCHANGED storage

\* (mutant) the text stored as the caller wrote it
ImportStores_Raw(c, arg, normalized) ==
  /\ storage' = Stored(arg.hex)
  /\ EnterWallet(c, "import", arg, normalized)

ImportStores(c, arg, normalized) ==
  /\ storage' = Stored(normalized)
  /\ EnterWallet(c, "import", arg, normalized)

ImportDecoded(c, arg, d) ==
  IF d.err # "" THEN ImportThrows(c, arg, d.err)
  ELSE IF Len(d.bytes) # SeedLen THEN ImportThrows(c, arg, "seed must be 32 bytes")
  ELSE ImportStores(c, arg, _bytesToHex(d.bytes))

ImportSeedCall(c, seedHex) ==
  /\ Free(c)
  /\ ImportDecoded(c, [NoArg EXCEPT !.hex = seedHex], _hexToBytes(seedHex))
  /\ UNCHANGED <<naclLoaded, subtleOk, hist, lastGood, pure>>

\* getWallet for seedHex = getSeedHex(), up to its await
GetWith(c, seedHex) ==
  IF seedHex = <<>>
    THEN calls' = [calls EXCEPT ![c] = Settle(NewCall("get", NoArg, <<>>), ResolvedNull)]
  ELSE EnterWallet(c, "get", NoArg, seedHex)

\* (mutant) a stored seed that gives no wallet is removed
GetWalletCall_Purges(c) ==
  /\ Free(c)
  /\ GetWith(c, getSeedHex)
  /\ storage' = IF calls'[c].res.kind = "error" THEN Absent ELSE storage
  /\ UNCHANGED <<naclLoaded, subtleOk, hist, lastGood, pure>>

GetWalletCall(c) ==
  /\ Free(c)
  /\ GetWith(c, getSeedHex)
  /\ UNCHANGED <<storage, naclLoaded, subtleOk, hist, lastGood, pure>>

\* the wallet that _walletFromSeedHex returns once the digest has resolved
AwaitedWallet(call) == WalletOfSeed(_hexToBytes(call.seedHex).bytes)

\* (mutant) the wallet of the seed that is stored when the digest resolves
WalletReturn_Rereads(c, op) ==
  /\ calls[c].pc = "await"
  /\ calls[c].op = op
  /\ calls' = [calls EXCEPT ![c] =
                 Settle(calls[c],
                        IF getSeedHex = <<>> THEN ResolvedNull
                        ELSE ResolvedWallet(WalletOfSeed(_hexToBytes(getSeedHex).bytes)))]

\* the digest resolves and generateWallet / importSeed / getWallet returns
\* the wallet of its seedHex
WalletReturn(c, op) ==
  /\ calls[c].pc = "await"
  /\ calls[c].op = op
  /\ calls' = [calls EXCEPT ![c] = Settle(calls[c], ResolvedWallet(AwaitedWallet(calls[c])))]

GenerateWalletReturn(c) ==
  /\ WalletReturn(c, "generate")
  /\ hist' = "unlocked"
  /\ lastGood' = calls[c].seedHex
  /\ UNCHANGED <<storage, naclLoaded, subtleOk, pure>>

ImportSeedReturn(c) ==
  /\ WalletReturn(c, "import")
  /\ hist' = "unlocked"
  /\ lastGood' = calls[c].seedHex
  /\ UNCHANGED <<storage, naclLoaded, subtleOk, pure>>

GetWalletReturn(c) ==
  /\ WalletReturn(c, "get")
  /\ UNCHANGED <<storage, naclLoaded, subtleOk, hist, lastGood, pure>>

\* clearWallet
ClearWallet ==
  /\ storage' = Absent
  /\ hist' = "cleared"
  /\ lastGood' = <<>>
  /\ UNCHANGED <<naclLoaded, subtleOk, calls, pure>>

\* signTransfer settles with r = SignTransferBody(...)
SettleTransfer(call, r) ==
  [call EXCEPT !.pc = "done", !.msg = r.msg, !.sigBytes = r.sigBytes,
               !.res = IF r.err # "" THEN Rejected(r.err)
                       ELSE ResolvedPayload(r.payload)]

\* what signTransfer settles with once getWallet has given hasWallet / w
SignTransferSettle(call, hasWallet, w) ==
  SettleTransfer(call,
                 SignTransferBody(hasWallet, w, call.arg.to, call.arg.amount,
                                  call.arg.memo, call.arg.nonce))

\* signTransfer for seedHex = getSeedHex(), up to the await of getWallet's
\* digest; with no stored seed getWallet gives null and signTransfer throws
TransferWith(c, arg, seedHex) ==
  IF seedHex = <<>>
    THEN calls' = [calls EXCEPT ![c] =
                     SignTransferSettle(NewCall("build", arg, <<>>), FALSE, NoWallet)]
  ELSE EnterWallet(c, "build", arg, seedHex)

SignTransferCall(c, arg) ==
  /\ Free(c)
  /\ TransferWith(c, arg, getSeedHex)
  /\ UNCHANGED <<storage, naclLoaded, subtleOk, hist, lastGood, pure>>

\* (mutant) the number of the call written after the memo
SignTransferReturn_Numbered(c) ==
  /\ calls[c].pc = "await"
  /\ calls[c].op = "build"
  /\ calls' = [calls EXCEPT ![c] =
                 SettleTransfer(calls[c],
                                SignTransferBody(TRUE, AwaitedWallet(calls[c]),
                                                 calls[c].arg.to, calls[c].arg.amount,
                                                 calls[c].arg.memo \o IntToStr(c),
                                                 calls[c].arg.nonce))]
  /\ UNCHANGED <<storage, naclLoaded, subtleOk, hist, lastGood, pure>>

\* the digest resolves, getWallet returns w and signTransfer runs to its end
SignTransferReturn(c) ==
  /\ calls[c].pc = "await"
  /\ calls[c].op = "build"
  /\ calls' = [calls EXCEPT ![c] =
                 SignTransferSettle(calls[c], TRUE, AwaitedWallet(calls[c]))]
  /\ UNCHANGED <<storage, naclLoaded, subtleOk, hist, lastGood, pure>>

\* the page's tweetnacl script finishes loading
LoadNacl ==
  /\ ~naclLoaded
  /\ naclLoaded' = TRUE
  /\ UNCHANGED <<storage, subtleOk, calls, hist, lastGood, pure>>

\* a new call takes the lowest slot that holds no call in flight
Lowest(c) == Free(c) /\ \A d \in Calls : d < c => ~Free(d)

\* calls interleave at their awaits
Next ==
  \/ \E c \in Calls : Lowest(c) /\ GenerateWalletCall(c)
  \/ \E c \in Calls : \E h \in ImportInputsFew : Lowest(c) /\ ImportSeedCall(c, h)
  \/ \E c \in Calls : Lowest(c) /\ GetWalletCall(c)
  \/ \E c \in Calls : \E a \in TransferArgsFew : Lowest(c) /\ SignTransferCall(c, a)
  \/ \E c \in Calls : GenerateWalletReturn(c)
  \/ \E c \in Calls : ImportSeedReturn(c)
  \/ \E c \in Calls : GetWalletReturn(c)
  \/ \E c \in Calls : SignTransferReturn(c)
  \/ ClearWallet
  \/ LoadNacl

Spec == Init /\ [][Next]_vars

\* one caller, which awaits each call before it makes the next
NoneInFlight == \A c \in Calls : Free(c)

SeqNext ==
  \/ NoneInFlight /\ GenerateWalletCall(1)
  \/ NoneInFlight /\ \E h \in ImportInputsFew : ImportSeedCall(1, h)
  \/ NoneInFlight /\ GetWalletCall(1)
  \/ NoneInFlight /\ \E a \in TransferArgsFew : SignTransferCall(1, a)
  \/ GenerateWalletReturn(1)
  \/ ImportSeedReturn(1)
  \/ GetWalletReturn(1)
  \/ SignTransferReturn(1)
  \/ NoneInFlight /\ ClearWallet
  \/ NoneInFlight /\ LoadNacl

SeqSpec == Init /\ [][SeqNext]_vars

\* the same caller importing every kind of seed text
ImportNext ==
  \/ NoneInFlight /\ \E h \in ImportInputs : ImportSeedCall(1, h)
  \/ ImportSeedReturn(1)
  \/ NoneInFlight /\ GenerateWalletCall(1)
  \/ GenerateWalletReturn(1)
  \/ NoneInFlight /\ GetWalletCall(1)
  \/ GetWalletReturn(1)
  \/ NoneInFlight /\ ClearWallet

ImportSpec == Init /\ [][ImportNext]_vars

\* the same caller signing every kind of transfer
BuildNext ==
  \/ NoneInFlight /\ GenerateWalletCall(1)
  \/ GenerateWalletReturn(1)
  \/ NoneInFlight /\ \E a \in TransferArgs : SignTransferCall(1, a)
  \/ SignTransferReturn(1)
  \/ NoneInFlight /\ ClearWallet

BuildSpec == Init /\ [][BuildNext]_vars

\* generateWallet has returned a wallet to the caller, in slot 1
Generated ==
  calls[1].op = "generate" /\ calls[1].pc = "done" /\ calls[1].res.kind = "wallet"

\* a caller that generates a wallet, keeps what generateWallet returned and
\* hands its seedHex back to importSeed
RoundNext ==
  \/ NoneInFlight /\ GenerateWalletCall(1)
  \/ GenerateWalletReturn(1)
  \/ NoneInFlight /\ Generated /\ ImportSeedCall(2, calls[1].res.wallet.seedHex)
  \/ ImportSeedReturn(2)
  \/ NoneInFlight /\ GetWalletCall(2)
  \/ GetWalletReturn(2)
  \/ NoneInFlight /\ ClearWallet

RoundSpec == Init /\ [][RoundNext]_vars

\* a wallet is generated, then transfers are signed side by side
SignersNext ==
  \/ NoneInFlight /\ GenerateWalletCall(1)
  \/ GenerateWalletReturn(1)
  \/ \E c \in Calls : \E a \in TransferArgsFew : Lowest(c) /\ SignTransferCall(c, a)
  \/ \E c \in Calls : SignTransferReturn(c)
  \/ NoneInFlight /\ ClearWallet

SignersSpec == Init /\ [][SignersNext]_vars

\* the calls that write the store, side by side
WritersNext ==
  \/ \E c \in Calls : Lowest(c) /\ GenerateWalletCall(c)
  \/ \E c \in Calls : Lowest(c) /\ ImportSeedCall(c, HexA)
  \/ \E c \in Calls : GenerateWalletReturn(c)
  \/ \E c \in Calls : ImportSeedReturn(c)
  \/ ClearWallet

WritersSpec == Init /\ [][WritersNext]_vars

--------------------------------------------------------------------------
(* Direct calls of the pure functions (RustChainWallet.canonicalTxJson is  *)
(* exported; _pyFloatRepr is its amount rendering)                         *)

FromAddr == <<"R", "T", "C", "a", "0">>

\* amounts: 1, 100, 0.01, 2.5, 0, -0, -1, 123.456, 1e20, 1e21, 1.5e21,
\* 1e-6, 1e-7, 1.5e-7, NaN, Infinity, -Infinity
FmtAmounts ==
  { Fin(FALSE, <<"1">>, 1), Fin(FALSE, <<"1">>, 3), Fin(FALSE, <<"1">>, -1),
    Amount2p5, Fin(FALSE, <<>>, 0), Fin(TRUE, <<>>, 0), Fin(TRUE, <<"1">>, 1),
    Fin(FALSE, <<"1", "2", "3", "4", "5", "6">>, 3),
    Fin(FALSE, <<"1">>, MaxPlainDigits), Fin(FALSE, <<"1">>, MaxPlainDigits + 1),
    Fin(FALSE, <<"1", "5">>, MaxPlainDigits + 1),
    Fin(FALSE, <<"1">>, MinPlainExp + 1), Fin(FALSE, <<"1">>, MinPlainExp),
    Fin(TRUE, <<"1", "5">>, MinPlainExp),
    NotANumber, Infinity(FALSE), Infinity(TRUE) }

FmtMemos ==
  { <<"h", "i">>, <<>>, <<"h", " ", "i">>, <<"a", "\"", "b", "\\", "\n">>,
    <<"\"", ",", "\"", "t", "o", "\"", ":", "\"", "R">> }

FmtArgs ==
  { FmtArg(f, t, a, m, n) :
      f \in {FromAddr}, t \in {ToAddr, <<"\\">>}, a \in FmtAmounts,
      m \in FmtMemos, n \in {<<"1">>, <<"-", "5">>} }

FmtInit ==
  /\ WalletInit
  /\ naclLoaded
  /\ subtleOk
  /\ fin \in FmtArgs
  /\ fout = NoFmtOut
  /\ footer = FooterBoot(FALSE, FALSE)

\* RustChainWallet.canonicalTxJson(from, to, amount, memo, nonce)
FmtOutOf(kind, r) == [kind |-> kind, err |-> r.err, str |-> r.msg]

CallCanonicalTxJson ==
  /\ fout' = FmtOutOf("canonical",
                      _canonicalTxJson(fin.from, fin.to, fin.amount, fin.memo, fin.nonce))
  /\ UNCHANGED <<storage, naclLoaded, subtleOk, calls, hist, lastGood, fin, footer>>

\* _pyFloatRepr(amount)
ReprOutOf(r) == [kind |-> "repr", err |-> r.err, str |-> r.str]

CallPyFloatRepr ==
  /\ fout' = ReprOutOf(_pyFloatRepr(fin.amount))
  /\ UNCHANGED <<storage, naclLoaded, subtleOk, calls, hist, lastGood, fin, footer>>

FmtNext ==
  \/ CallCanonicalTxJson
  \/ CallPyFloatRepr

FmtSpec == FmtInit /\ [][FmtNext]_vars

--------------------------------------------------------------------------
(* The footer counters script                                              *)

\* the delay of the fallback timer, in milliseconds
FallbackDelayMs == 800

\* how many half delays the clock of the model runs
MaxTicks == 3

\* how many entries one observer callback delivers at most
MaxEntries == 2

\* the entries of a callback, by their isIntersecting
EntryLists ==
  UNION {[1..n -> BOOLEAN] : n \in 1..MaxEntries}

\* loadCounters: the request is issued unless _loaded is set
loadCounters(f) ==
  IF f._loaded THEN f
  ELSE [f EXCEPT !._loaded = TRUE, !.fetches = @ + 1, !.fetch = "pending"]

\* (mutant) the counters loaded as soon as init runs
initBody_Eager(f) == loadCounters(f)

\* the body of init
initBody(f) ==
  IF ~f.anchor THEN loadCounters(f)
  ELSE IF f.io THEN [f EXCEPT !.observing = TRUE]
  ELSE [f EXCEPT !.timer = TRUE]

\* init, run once: at DOMContentLoaded or as the script is evaluated
init ==
  /\ ~footer.started
  /\ footer' = initBody([footer EXCEPT !.started = TRUE, !.startedAt = footer.now])
  /\ UNCHANGED <<storage, naclLoaded, subtleOk, calls, hist, lastGood, fin, fout>>

\* the callback of the IntersectionObserver, for the entries f.entries
observerBody(f) ==
  IF \E i \in 1..Len(f.entries) : f.entries[i]
    THEN loadCounters([f EXCEPT !.observing = FALSE])
  ELSE f

ObserverCallback ==
  /\ footer.observing
  /\ \E entries \in EntryLists :
       footer' = observerBody([footer EXCEPT !.entries = entries])
  /\ UNCHANGED <<storage, naclLoaded, subtleOk, calls, hist, lastGood, fin, fout>>

\* the fallback timer fires, its delay having passed
TimerFires ==
  /\ footer.timer
  /\ footer.now >= footer.startedAt + FallbackDelayMs
  /\ footer' = loadCounters([footer EXCEPT !.timer = FALSE])
  /\ UNCHANGED <<storage, naclLoaded, subtleOk, calls, hist, lastGood, fin, fout>>

\* (mutant) a failed request is issued again
FetchSettles_Retries ==
  /\ footer.fetch = "pending"
  /\ \E outcome \in {"applied", "failed"} :
       footer' = IF outcome = "failed"
                   THEN loadCounters([footer EXCEPT !._loaded = FALSE])
                 ELSE [footer EXCEPT !.fetch = outcome]
  /\ UNCHANGED <<storage, naclLoaded, subtleOk, calls, hist, lastGood, fin, fout>>

\* the request ends: the counters are applied, or the failure is swallowed
FetchSettles ==
  /\ footer.fetch = "pending"
  /\ \E outcome \in {"applied", "failed"} : footer' = [footer EXCEPT !.fetch = outcome]
  /\ UNCHANGED <<storage, naclLoaded, subtleOk, calls, hist, lastGood, fin, fout>>

\* time passes
Tick ==
  /\ footer.now < MaxTicks * (FallbackDelayMs \div 2)
  /\ footer' = [footer EXCEPT !.now = @ + FallbackDelayMs \div 2]
  /\ UNCHANGED <<storage, naclLoaded, subtleOk, calls, hist, lastGood, fin, fout>>

FooterInit ==
  /\ WalletInit
  /\ naclLoaded
  /\ subtleOk
  /\ fin = NoFmtArg
  /\ fout = NoFmtOut
  /\ \E anchor \in BOOLEAN : \E io \in BOOLEAN : footer = FooterBoot(anchor, io)

FooterNext ==
  \/ init
  \/ ObserverCallback
  \/ TimerFires
  \/ FetchSettles
  \/ Tick

FooterSpec == FooterInit /\ [][FooterNext]_vars

--------------------------------------------------------------------------
(* The error taxonomy of the specification, by the messages thrown         *)

InvalidSeedError ==
  {"hex length must be even", "invalid hex", "seed must be 32 bytes"}

CryptoUnavailableError == {"nacl not loaded", "TypeError"}

NoWalletError == "no local wallet"

InvalidNonceError == "invalid nonce"

NonFiniteAmountError == "amount not finite"

--------------------------------------------------------------------------
(* Properties                                                              *)

\* call c settles in this step
Settles(c) == calls'[c].pc = "done" /\ calls'[c] # calls[c]

BytesOfHex(h) == _hexToBytes(h).bytes

\* C1, the store as a state machine: no seed is stored initially, a
\* generate/import that returns leaves a seed stored, clear leaves none.
C1_Lifecycle ==
  /\ ~storage.present
  /\ [][\A c \in Calls :
          /\ Settles(c) /\ calls'[c].op \in {"generate", "import"}
               /\ calls'[c].res.kind = "wallet"
               /\ calls[c].pc = "await"
             => storage'.present
          /\ storage' = Absent /\ hist' = "cleared" => ~storage'.present]_vars

\* C1: in a sequential run every get returns None exactly when no seed is
\* stored, and otherwise the KeyPair derived from the seed written by the most
\* recent generate/import that succeeded (a get may also fail because the
\* crypto primitives are missing).
C1_GetReturnsLastGood ==
  [][\A c \in Calls :
       Settles(c) /\ calls'[c].op = "get" =>
         /\ (calls'[c].res.kind = "null") <=> ~storage.present
         /\ calls'[c].res.kind = "wallet" =>
              /\ hist = "unlocked"
              /\ calls'[c].res.wallet = WalletOfSeed(BytesOfHex(lastGood))
         /\ calls'[c].res.kind = "error" =>
              calls'[c].res.err \in CryptoUnavailableError]_vars

\* C2: in a sequential run, from a clear() until the next generate/import
\* that succeeds, every get returns None and every build raises NoWalletError.
C2_ClearedStaysLocked ==
  [][\A c \in Calls :
       Settles(c) /\ hist = "cleared" =>
         /\ calls'[c].op = "get" => calls'[c].res.kind = "null"
         /\ calls'[c].op = "build" =>
              /\ calls'[c].res.kind = "error"
              /\ calls'[c].res.err = NoWalletError]_vars

\* C3: a generate or import that ends in an error leaves the stored seed as
\* it was before the call.
C3_FailureLeavesStore ==
  [][\A c \in Calls :
       Settles(c) /\ calls'[c].op \in {"generate", "import"}
         /\ calls'[c].res.kind = "error"
       => calls[c].pc # "await" /\ storage' = storage]_vars

\* the text is, once trimmed, lowercased and rid of a 0x prefix, exactly
\* 2 * SeedLen hexadecimal digits
Normalized(hex) == Strip0x(ToLowerCase(Trim(hex)))

AllHex(h) == \A i \in 1..Len(h) : IsHexDigit(h[i])

IsSeedText(hex) == Len(Normalized(hex)) = 2 * SeedLen /\ AllHex(Normalized(hex))

\* C4: import of a text that is not exactly 64 hexadecimal digits fails with
\* InvalidSeedError.
C4_ImportRejectsBadSeed ==
  \A c \in Calls :
    calls[c].op = "import" /\ calls[c].pc = "done" /\ ~IsSeedText(calls[c].arg.hex)
    => calls[c].res.kind = "error" /\ calls[c].res.err \in InvalidSeedError

\* C5: when build computes the signature, the key it uses is derived from the
\* seed stored at that moment.
C5_SignsWithStoredSeed ==
  [][\A c \in Calls :
       Settles(c) /\ calls'[c].op = "build" /\ calls'[c].res.kind = "payload"
       => storage.present /\ storage.value = calls[c].seedHex]_vars

\* the text is a non-negative integer in decimal
IsNonNegativeInteger(n) == n # <<>> /\ \A i \in 1..Len(n) : IsDecDigit(n[i])

\* C6: build with a nonce that is not a non-negative integer returns no
\* payload: it raises InvalidNonceError (or, the checks before it failing,
\* NoWalletError / CryptoUnavailableError).
C6_BadNonceRejected ==
  \A c \in Calls :
    calls[c].op = "build" /\ calls[c].pc = "done"
      /\ ~IsNonNegativeInteger(calls[c].arg.nonce)
    => /\ calls[c].res.kind = "error"
       /\ calls[c].res.err \in
            {InvalidNonceError, NoWalletError} \cup CryptoUnavailableError

\* C7: with a wallet obtained and a valid nonce, build of a non-finite amount
\* raises NonFiniteAmountError, has encoded and signed nothing, returns no
\* payload and leaves the stored seed alone.
C7_NonFiniteRejected ==
  [][\A c \in Calls :
       Settles(c) /\ calls'[c].op = "build" /\ calls[c].pc = "await"
         /\ IsNonNegativeInteger(calls'[c].arg.nonce)
         /\ ~IsFinite(calls'[c].arg.amount)
       => /\ calls'[c].res = Rejected(NonFiniteAmountError)
          /\ calls'[c].msg = <<>>
          /\ calls'[c].sigBytes = <<>>
          /\ storage' = storage]_vars

C7_Witness ==
  \E c \in Calls :
    /\ calls[c].op = "build" /\ calls[c].pc = "done"
    /\ calls[c].seedHex # <<>> /\ storage.present
    /\ IsNonNegativeInteger(calls[c].arg.nonce)
    /\ calls[c].arg.amount \in {NotANumber, Infinity(FALSE), Infinity(TRUE)}
    /\ calls[c].res.err = NonFiniteAmountError

--------------------------------------------------------------------------
(* A reader of the canonical message, as a verifier would write it: the    *)
(* exact frame, JSON string unescaping, a JSON number.                     *)

NotRead == [ok |-> FALSE, val |-> <<>>, next |-> 0]

\* the lit is at position p of msg
LitAt(msg, p, lit) ==
  p >= 1 /\ p + Len(lit) - 1 <= Len(msg) /\ SubSeq(msg, p, p + Len(lit) - 1) = lit

\* the JSON string whose characters start at i, read up to its closing quote
RECURSIVE ReadChars(_, _, _)
ReadChars(msg, i, acc) ==
  IF i > Len(msg) \/ msg[i] = "\n" THEN NotRead
  ELSE IF msg[i] = "\"" THEN [ok |-> TRUE, val |-> acc, next |-> i + 1]
  ELSE IF msg[i] # "\\" THEN ReadChars(msg, i + 1, Append(acc, msg[i]))
  ELSE IF i + 1 > Len(msg) THEN NotRead
  ELSE IF msg[i + 1] = "n" THEN ReadChars(msg, i + 2, Append(acc, "\n"))
  ELSE IF msg[i + 1] \in {"\"", "\\"} THEN ReadChars(msg, i + 2, Append(acc, msg[i + 1]))
  ELSE NotRead

\* the member key:"string" at position p
ReadMember(msg, p, key) ==
  IF LitAt(msg, p, key \o <<"\"">>) THEN ReadChars(msg, p + Len(key) + 1, <<>>)
  ELSE NotRead

\* the bare value from p up to the next comma
ReadBare(msg, p, commas) ==
  IF commas = {} THEN NotRead
  ELSE [ok |-> TRUE, val |-> SubSeq(msg, p, Min(commas) - 1), next |-> Min(commas)]

NotDecoded ==
  [ok |-> FALSE, amount |-> <<>>, from |-> <<>>, memo |-> <<>>, nonce |-> <<>>,
   to |-> <<>>]

DecodeTo(msg, a, f, m, n, t) ==
  IF t.ok /\ LitAt(msg, t.next, <<"}">>) /\ t.next = Len(msg)
    THEN [ok |-> TRUE, amount |-> a.val, from |-> f.val, memo |-> m.val,
          nonce |-> n.val, to |-> t.val]
  ELSE NotDecoded

DecodeNonce(msg, a, f, m, n) ==
  IF n.ok THEN DecodeTo(msg, a, f, m, n, ReadMember(msg, n.next, <<",">> \o KeyTo))
  ELSE NotDecoded

DecodeMemo(msg, a, f, m) ==
  IF m.ok THEN DecodeNonce(msg, a, f, m, ReadMember(msg, m.next, <<",">> \o KeyNonce))
  ELSE NotDecoded

DecodeFrom(msg, a, f) ==
  IF f.ok THEN DecodeMemo(msg, a, f, ReadMember(msg, f.next, <<",">> \o KeyMemo))
  ELSE NotDecoded

DecodeAmount(msg, a) ==
  IF a.ok THEN DecodeFrom(msg, a, ReadMember(msg, a.next, <<",">> \o KeyFrom))
  ELSE NotDecoded

\* the five members of {"amount":..,"from":"..","memo":"..","nonce":"..","to":".."}
DecodeCanonical(msg) ==
  IF LitAt(msg, 1, <<"{">> \o KeyAmount)
    THEN DecodeAmount(msg,
           ReadBare(msg, Len(KeyAmount) + 2,
                    {i \in (Len(KeyAmount) + 2)..Len(msg) : msg[i] = ","}))
  ELSE NotDecoded

\* a JSON number: -?digits(.digits)?(e[+-]?digits)?
NumberChars == DecDigitSet \cup {"-", "+", ".", "e"}

AllDigits(t) == t # <<>> /\ \A i \in 1..Len(t) : IsDecDigit(t[i])

Unsigned(t) == IF t # <<>> /\ t[1] = "-" THEN Tail(t) ELSE t

Places(t, c) == {i \in 1..Len(t) : t[i] = c}

Mantissa(t) == IF Places(t, "e") = {} THEN t ELSE SubSeq(t, 1, Min(Places(t, "e")) - 1)

ExpText(t) ==
  IF Places(t, "e") = {} THEN <<"0">> ELSE SubSeq(t, Min(Places(t, "e")) + 1, Len(t))

IntPart(m) == IF Places(m, ".") = {} THEN m ELSE SubSeq(m, 1, Min(Places(m, ".")) - 1)

FracPart(m) ==
  IF Places(m, ".") = {} THEN <<>> ELSE SubSeq(m, Min(Places(m, ".")) + 1, Len(m))

ExpDigits(e) == IF e # <<>> /\ e[1] \in {"+", "-"} THEN Tail(e) ELSE e

IsJsonNumber(t) ==
  /\ \A i \in 1..Len(t) : t[i] \in NumberChars
  /\ AllDigits(IntPart(Mantissa(Unsigned(t))))
  /\ Places(Mantissa(Unsigned(t)), ".") # {} => AllDigits(FracPart(Mantissa(Unsigned(t))))
  /\ AllDigits(ExpDigits(ExpText(Unsigned(t))))

\* the digits d scaled by 10^n, without leading and trailing zeros
RECURSIVE Normal(_, _, _)
Normal(neg, d, n) ==
  IF d = <<>> THEN Fin(FALSE, <<>>, 0)
  ELSE IF Head(d) = "0" THEN Normal(neg, Tail(d), n - 1)
  ELSE IF d[Len(d)] = "0" THEN Normal(neg, SubSeq(d, 1, Len(d) - 1), n)
  ELSE Fin(neg, d, n)

\* the Number a JSON number text denotes
NumberOfText(t) ==
  Normal(t # <<>> /\ t[1] = "-",
         IntPart(Mantissa(Unsigned(t))) \o FracPart(Mantissa(Unsigned(t))),
         Len(IntPart(Mantissa(Unsigned(t)))) + ParseInt(ExpText(Unsigned(t)), 10).val)

\* the value of a Number (-0 and 0 are one value)
ValueOf(x) == IF x.kind = "fin" /\ x.digits = <<>> THEN Fin(FALSE, <<>>, 0) ELSE x

--------------------------------------------------------------------------
(* Properties of the canonical message                                     *)

\* the blanks of t; a line break is escaped by the encoder and counted apart
CountSpace(t) == Cardinality({i \in 1..Len(t) : t[i] = " "})

\* what a reader finds in the message emitted for fin
ReadsBack(d) ==
  /\ d.ok
  /\ d.from = fin.from /\ d.memo = fin.memo /\ d.nonce = fin.nonce /\ d.to = fin.to
  /\ IsJsonNumber(d.amount)
  /\ NumberOfText(d.amount) = ValueOf(fin.amount)

\* C8: the encoder emits, for every finite amount, exactly
\* {"amount":A,"from":"F","memo":"M","nonce":"N","to":"T"}: the five members
\* in this order, A a bare number and F, M, N, T JSON strings that read back
\* as the arguments, and no white space but that of the strings.
C8_CanonicalShape ==
  fout.kind = "canonical" =>
    /\ fout.err = "" <=> IsFinite(fin.amount)
    /\ fout.err = "" =>
         /\ ReadsBack(DecodeCanonical(fout.str))
         /\ HasNo(fout.str, "\n")
         /\ CountSpace(fout.str) =
              CountSpace(fin.from) + CountSpace(fin.memo) + CountSpace(fin.nonce)
                + CountSpace(fin.to)

C8_Witness ==
  /\ fout.kind = "canonical" /\ fout.err = ""
  /\ fin.memo = <<"a", "\"", "b", "\\", "\n">>
  /\ fin.to = <<"\\">>
  /\ DecodeCanonical(fout.str).memo = fin.memo

\* the amount is a whole number
IsIntegral(x) == x.kind = "fin" /\ Len(x.digits) <= x.n

\* the digits of a whole number, with its sign
IntegerDigits(x) ==
  IF x.digits = <<>> THEN <<"0">>
  ELSE (IF x.neg THEN <<"-">> ELSE <<>>) \o x.digits \o Rep(<<"0">>, x.n - Len(x.digits))

EndsWith(t, suffix) ==
  Len(t) >= Len(suffix) /\ SubSeq(t, Len(t) - Len(suffix) + 1, Len(t)) = suffix

\* no ".0" was forced onto the text and its fraction does not end in a zero
NoForcedZero(t) ==
  /\ ~EndsWith(t, <<".", "0">>)
  /\ Places(Mantissa(t), ".") # {} => ~EndsWith(Mantissa(t), <<"0">>)

\* C9 as claimed: every finite whole amount is rendered as its integer digits
\* followed by ".0", every other finite amount without a forced ".0" or
\* trailing zeros.
C9_FloatRule ==
  fout.kind = "repr" /\ IsFinite(fin.amount) =>
    /\ fout.err = ""
    /\ IsIntegral(fin.amount) => fout.str = IntegerDigits(fin.amount) \o <<".", "0">>
    /\ ~IsIntegral(fin.amount) => NoForcedZero(fout.str)

\* C9, amended: the integer digits followed by ".0" for whole amounts below
\* 10^21; whole amounts from 10^21 on are rendered in exponent notation with no
\* ".0"; every other finite amount without a forced ".0" or trailing zeros; and
\* the text always denotes the amount.
C9_FloatRuleBelow1e21 ==
  fout.kind = "repr" /\ IsFinite(fin.amount) =>
    /\ fout.err = ""
    /\ IsJsonNumber(fout.str) /\ NumberOfText(fout.str) = ValueOf(fin.amount)
    /\ IsIntegral(fin.amount) /\ fin.amount.n <= MaxPlainDigits
         => fout.str = IntegerDigits(fin.amount) \o <<".", "0">>
    /\ IsIntegral(fin.amount) /\ fin.amount.n > MaxPlainDigits
         => Places(fout.str, "e") # {} /\ NoForcedZero(fout.str)
    /\ ~IsIntegral(fin.amount) => NoForcedZero(fout.str)

C9_Witness ==
  /\ fout.kind = "repr"
  /\ fin.amount = Fin(FALSE, <<"1">>, 3)
  /\ fout.str = <<"1", "0", "0", ".", "0">>

--------------------------------------------------------------------------
(* Properties of the signed payload                                        *)

PublicKeyHexOfSeedHex(seedHex) ==
  _bytesToHex(nacl_sign_keyPair_fromSeed(BytesOfHex(seedHex)).publicKey)

\* the from of the payload p of a build that read seedHex from the store
FromIsSigner(p, seedHex) ==
  /\ DecodeCanonical(p.canonical_message).ok
  /\ DecodeCanonical(p.canonical_message).from = p.from_address
  /\ p.from_address = AddressOf(BytesOfHex(p.public_key))
  /\ p.public_key = PublicKeyHexOfSeedHex(seedHex)

\* C10: in every payload build returns, the from of canonical_message is
\* from_address, which is the address of public_key, which is the public key
\* of the seed that this build read from the store.
C10_FromIsSigner ==
  \A c \in Calls :
    calls[c].op = "build" /\ calls[c].pc = "done" /\ calls[c].res.kind = "payload"
    => FromIsSigner(calls[c].res.payload, calls[c].seedHex)

C10_Witness ==
  \E c \in Calls :
    /\ calls[c].op = "build" /\ calls[c].pc = "done"
    /\ calls[c].res.kind = "payload"
    /\ calls[c].seedHex \in {_bytesToHex(seed) : seed \in RandomSeeds}
    /\ calls[c].res.payload.from_address # calls[c].arg.to
    /\ DecodeCanonical(calls[c].res.payload.canonical_message).to = calls[c].arg.to

\* a build that has returned a payload
Built(c) ==
  calls[c].op = "build" /\ calls[c].pc = "done" /\ calls[c].res.kind = "payload"

\* the nonce of payload p is the number the caller's text n denotes, and the
\* message carries its decimal rendering
NonceEchoed(p, n) ==
  /\ IsJsonNumber(n)
  /\ NumberOfText(n) = NumberOfText(IntToStr(p.nonce))
  /\ DecodeCanonical(p.canonical_message).nonce = IntToStr(p.nonce)

\* C11: in every payload build returns, nonce is the integer the caller
\* supplied, the quoted nonce of canonical_message is the decimal rendering of
\* that integer, and canonical_message is the very string that was signed.
C11_NonceEcho ==
  \A c \in Calls :
    Built(c) =>
      /\ NonceEchoed(calls[c].res.payload, calls[c].arg.nonce)
      /\ calls[c].res.payload.canonical_message = calls[c].msg
      /\ calls[c].res.payload.signature = _bytesToHex(calls[c].sigBytes)

--------------------------------------------------------------------------
(* Signature verification, as the receiving server does it                 *)

\* the seed a public key of the stand-in key pairs comes from
SeedOfPublicKey(pk) ==
  AsSeq([i \in 1..Len(pk) |-> ((pk[i] + 256 - 3 * i - 1) * 183) % 256], Len(pk))

\* nacl.sign.detached.verify(msgBytes, sig, publicKey)
nacl_sign_detached_verify(msgBytes, sig, publicKey) ==
  sig = nacl_sign_detached(msgBytes, SeedOfPublicKey(publicKey) \o publicKey)

\* the changes made to one byte
TamperDeltas == {1, 128, 255}

Tampered(msgBytes, j, d) == [msgBytes EXCEPT ![j] = (msgBytes[j] + d) % 256]

\* the signature verifies for the bytes, and for none of the tampered bytes
VerifiesOnly(msgBytes, sig, publicKey) ==
  /\ nacl_sign_detached_verify(msgBytes, sig, publicKey)
  /\ \A j \in 1..Len(msgBytes) : \A d \in TamperDeltas :
       ~nacl_sign_detached_verify(Tampered(msgBytes, j, d), sig, publicKey)

\* C12: the signature of every payload that build returns verifies under
\* public_key for exactly the bytes of canonical_message: it is a signature
\* (64 bytes) that verifies for the message and fails to verify once one byte
\* of the message is changed.
C12_SignatureVerifies ==
  \A c \in Calls :
    Built(c) =>
      /\ Len(calls[c].res.payload.signature) = 2 * SignatureLen
      /\ VerifiesOnly(TextEncode(calls[c].res.payload.canonical_message),
                      BytesOfHex(calls[c].res.payload.signature),
                      BytesOfHex(calls[c].res.payload.public_key))

C12_Witness ==
  \E c \in Calls :
    /\ Built(c)
    /\ IsNonNegativeInteger(calls[c].arg.nonce)
    /\ IsFinite(calls[c].arg.amount)
    /\ calls[c].sigBytes # <<>>
    /\ nacl_sign_detached_verify(TextEncode(calls[c].msg), calls[c].sigBytes,
                                 BytesOfHex(calls[c].res.payload.public_key))

--------------------------------------------------------------------------
(* Properties of the derivation                                            *)

\* the wallet w has the address and the public key of the wallet g, and its
\* address is the one derived from its public key
SameKeys(w, g) ==
  /\ w.address = g.address
  /\ w.publicKeyHex = g.publicKeyHex
  /\ w.address = AddressOf(BytesOfHex(w.publicKeyHex))
  /\ g.address = AddressOf(BytesOfHex(g.publicKeyHex))

\* the call in slot 2 has ended and worked on the seed of the generated wallet
Reimported ==
  /\ calls[2].op = "import" /\ calls[2].pc = "done"
  /\ calls[2].arg.hex = calls[1].res.wallet.seedHex

GotBack ==
  /\ calls[2].op = "get" /\ calls[2].pc = "done"
  /\ calls[2].seedHex = calls[1].res.wallet.seedHex

\* C13: the address derived from a public key is the same each time, and
\* after generate, the import of the returned seed hex and the get that
\* follows both return the address and the public key that generate returned.
C13_RoundTrip ==
  Generated /\ (Reimported \/ GotBack) =>
    /\ calls[2].res.kind = "wallet"
    /\ SameKeys(calls[2].res.wallet, calls[1].res.wallet)
    /\ calls[2].res.wallet.seedHex = calls[1].res.wallet.seedHex

C13_Witness ==
  /\ Generated /\ Reimported
  /\ storage = Stored(calls[1].res.wallet.seedHex)
  /\ calls[2].res.kind = "wallet"
  /\ calls[2].res.wallet.address = calls[1].res.wallet.address

--------------------------------------------------------------------------
(* Properties of the stored value                                          *)

\* 64 lowercase hexadecimal characters, the hex of 32 bytes
IsStoredSeed(v) ==
  /\ Len(v) = 2 * SeedLen
  /\ \A i \in 1..Len(v) : v[i] \in HexDigitSet
  /\ Len(BytesOfHex(v)) = SeedLen
  /\ _bytesToHex(BytesOfHex(v)) = v

\* C14: whatever generate, import and clear have done, the store holds
\* nothing or 64 lowercase hexadecimal characters that are the hex of 32 bytes.
C14_StoredFormat == storage.present => IsStoredSeed(storage.value)

C14_Witness ==
  /\ calls[1].op = "import" /\ calls[1].pc = "done"
  /\ calls[1].res.kind = "wallet"
  /\ calls[1].arg.hex = <<"0", "X">> \o HexAUpper
  /\ storage = Stored(HexA)

\* call c starts in this step as a call of op
Starts(c, op) ==
  calls[c].pc # "await" /\ calls'[c] # calls[c] /\ calls'[c].op = op

\* the spellings of the seed whose lowercase hex is HexA
SpellingsOfHexA ==
  {HexA, HexAUpper, <<"0", "x">> \o HexA, <<"0", "X">> \o HexAUpper}

\* C15: the import of a valid seed, however it is spelled (lowercase,
\* uppercase, with a 0x prefix), is accepted, persists the one normalized
\* lowercase value and returns the KeyPair of that value; the import of the
\* value that is stored leaves the store as it is.
C15_ImportNormalizes ==
  [][\A c \in Calls :
       /\ Starts(c, "import") /\ calls'[c].arg.hex \in SpellingsOfHexA
            /\ naclLoaded /\ subtleOk
          => /\ calls'[c].pc = "await"
             /\ storage' = Stored(HexA)
       /\ Starts(c, "import") /\ storage = Stored(calls'[c].arg.hex)
          => storage' = storage
       /\ Settles(c) /\ calls[c].pc = "await" /\ calls'[c].op = "import"
            /\ calls'[c].arg.hex \in SpellingsOfHexA
          => calls'[c].res = ResolvedWallet(WalletOfSeed(BytesOfHex(HexA)))]_vars

C15_Witness ==
  /\ calls[1].op = "import" /\ calls[1].pc = "done"
  /\ calls[1].arg.hex = HexAUpper
  /\ calls[1].res = ResolvedWallet(WalletOfSeed(BytesOfHex(HexA)))
  /\ storage = Stored(HexA)
  /\ lastGood = HexA

--------------------------------------------------------------------------
(* Properties of build as a function                                       *)

\* the signature of payload p is the signature of its message under the
\* secret key of the seed
SignedBySeed(p, seedHex) ==
  p.signature =
    _bytesToHex(nacl_sign_detached(TextEncode(p.canonical_message),
                                   WalletOfSeed(BytesOfHex(seedHex)).secretKey))

--------------------------------------------------------------------------
(* Properties of the footer counters                                       *)

\* this step issues a request to /api/footer-counters
Requests == footer'.fetches # footer.fetches

\* C17: with an anchor and IntersectionObserver, a request is issued only by
\* an observer callback one of whose entries is intersecting; without
\* IntersectionObserver, only by the timer once its delay has passed; and
\* without an anchor it is issued by init itself.
C17_LazyLoad ==
  [][/\ Requests =>
          /\ footer'.fetches = footer.fetches + 1
          /\ footer.anchor /\ footer.io =>
               /\ footer.observing
               /\ \E i \in 1..Len(footer'.entries) : footer'.entries[i]
          /\ footer.anchor /\ ~footer.io =>
               /\ footer.timer /\ ~footer'.timer
               /\ footer.now >= footer.startedAt + FallbackDelayMs
          /\ ~footer.anchor => ~footer.started /\ footer'.started
     /\ footer'.started /\ ~footer'.anchor => footer'.fetches = 1
     /\ footer'.started /\ ~footer.started /\ footer.anchor => ~Requests]_vars

C17_Witness ==
  /\ footer.anchor /\ footer.io
  /\ footer.entries = <<FALSE, TRUE>>
  /\ ~footer.observing
  /\ footer.fetches = 1
  /\ footer.now > 0

\* the request has been issued and has ended
Settled == footer.fetch \in {"applied", "failed"}

\* C21: whatever init, the observer callbacks and the fallback timer do, at
\* most one request to /api/footer-counters is issued, and it is issued
\* exactly when _loaded is set; once the request has ended, by its counters
\* applied or by its failure swallowed, no step issues another one, clears
\* _loaded or changes how the request ended.
C21_AtMostOnce ==
  [][/\ footer'.fetches <= 1
     /\ footer'._loaded <=> footer'.fetches = 1
     /\ footer._loaded => footer'._loaded /\ ~Requests
     /\ Settled => footer'.fetch = footer.fetch]_vars

C21_Witness ==
  /\ footer.anchor /\ ~footer.io
  /\ footer.started /\ ~footer.timer
  /\ footer._loaded
  /\ footer.fetches = 1
  /\ footer.fetch = "failed"
  /\ footer.now > footer.startedAt + FallbackDelayMs

--------------------------------------------------------------------------
(* Frame of the reading operations                                         *)

\* C18: no step of a get or of a build, whether the call starts, fails,
\* resolves to null or returns, writes, replaces or removes the stored seed.
C18_ReadsLeaveStore ==
  [][\A c \in Calls :
       calls'[c] # calls[c] /\ calls'[c].op \in {"get", "build"}
       => storage' = storage]_vars

C18_Witness ==
  /\ calls[1].op = "build" /\ calls[1].pc = "done"
  /\ calls[1].res.kind = "error"
  /\ calls[1].res.err # NoWalletError
  /\ storage.present

--------------------------------------------------------------------------
(* Calls that write the store side by side                                 *)

\* call c is a generate or an import
Writes(c) == calls'[c].op \in {"generate", "import"}

\* C19: a generate or import that goes on to derive its wallet has written
\* its own seed to the store, and when it returns it returns the KeyPair of
\* that seed, whatever the store holds by then.
C19_ReturnsOwnSeed ==
  [][\A c \in Calls :
       /\ calls[c].pc # "await" /\ calls'[c].pc = "await" /\ Writes(c)
          => storage' = Stored(calls'[c].seedHex)
       /\ Settles(c) /\ calls[c].pc = "await" /\ Writes(c)
          => /\ calls'[c].res =
                  ResolvedWallet(WalletOfSeed(BytesOfHex(calls[c].seedHex)))
             /\ calls'[c].res.wallet.seedHex = calls[c].seedHex]_vars

\* call c returned its wallet last, after call d had overwritten the store
C19_Witness ==
  \E c \in Calls : \E d \in Calls :
    /\ c # d
    /\ calls[c].op \in {"generate", "import"} /\ calls[c].res.kind = "wallet"
    /\ calls[d].op \in {"generate", "import"} /\ calls[d].res.kind = "wallet"
    /\ calls[c].seedHex # calls[d].seedHex
    /\ lastGood = calls[c].seedHex
    /\ storage = Stored(calls[d].seedHex)

--------------------------------------------------------------------------
(* Order of the checks of build                                            *)

\* C20: with nothing stored build raises NoWalletError whatever its
\* arguments; with a wallet, an invalid nonce and a non-finite amount it
\* raises InvalidNonceError; and it signs only when the nonce is valid and the
\* amount finite.
C20_ErrorPrecedence ==
  [][\A c \in Calls :
       Settles(c) /\ calls'[c].op = "build" =>
         /\ ~storage.present /\ calls[c].pc # "await"
            => calls'[c].res = Rejected(NoWalletError)
         /\ calls[c].pc = "await"
              /\ ~IsNonNegativeInteger(calls'[c].arg.nonce)
              /\ ~IsFinite(calls'[c].arg.amount)
            => calls'[c].res = Rejected(InvalidNonceError)
         /\ calls'[c].sigBytes # <<>>
            => /\ IsNonNegativeInteger(calls'[c].arg.nonce)
               /\ IsFinite(calls'[c].arg.amount)]_vars

====
